---- MODULE Spec2Model ----
(***************************************************************************)
(* A model of pydra/compose/bids_app_wrapper/builder.py:                    *)
(*   - BidsApp, the workflow constructor (specification Spec),              *)
(*   - ToBids, the stage-in task (specification SpecToBids),                *)
(*   - ExtractBids, the extract-out task (specification SpecExtractBids).   *)
(* The constructor is modelled statement by statement.  Python values are   *)
(* modelled as strings (str, Path, enum members by their repr), lists as    *)
(* sequences and dicts as sequences of <<key, value>> items in insertion    *)
(* order.                                                                   *)
(***************************************************************************)
EXTENDS Integers, Sequences, FiniteSets, TLC

VARIABLES
    \* ---- BidsApp: arguments and locals of one call of the constructor
    pc,                 \* position in BidsApp ("idle", "L<line>", "raised")
    exc,                \* the exception that ended the call, or NoExc
    name,
    row_id,
    inputs,
    outputs,
    container_image,
    parameters,
    row_frequency,
    dataset,
    app_output_dir,
    app_work_dir,
    flags,
    input_names,
    output_names,
    input_fields,
    environment,
    app_output_path,
    analysis_level,
    nodes,              \* the workflow under construction: node name -> node
    \* ---- module and host state that outlives a call
    BIDS_APP_INPUTS,    \* the module-level list (a mutable Python list)
    dirs,               \* directories that exist on the host
    ntemp,              \* number of tempfile.mkdtemp() calls so far
    ncalls,             \* number of BidsApp constructions so far
    \* ---- the dataset handle (FrameSet) and its store, shared by the tasks
    store_json_edits,   \* frameset.store.json_edits: a list of (path, edit)
    columns,            \* the sinks added to the frameset, in the order added
    cells,              \* the store: <<frequency, id, column>> -> stored item
    connection,         \* frameset.store.connection: "closed" or "open"
    log,                \* the warnings logged so far
    \* ---- ToBids: arguments and locals of one call of the task
    tb_pc,
    tb_exc,
    tb_args,
    tb_je_args,
    tb_i,               \* position of the running for loop
    tb_out,             \* the returned tuple
    \* ---- the host file system below the directories ExtractBids copies
    fs,                 \* directory path -> the tree stored there
    \* ---- ExtractBids: arguments and locals of one call of the task
    eb_pc,
    eb_exc,
    eb_args,
    eb_i,               \* position of the running for loop
    eb_output_paths,
    eb_out,             \* the returned value
    eb_calls,           \* number of ExtractBids calls so far
    \* ---- a second run on the same frameset
    parked              \* the task frames of the run that is not executing

wfLocals == <<name, row_id, inputs, outputs, container_image, parameters,
              row_frequency, dataset, app_output_dir, app_work_dir, flags,
              input_names, output_names, input_fields, environment,
              app_output_path, analysis_level, nodes>>

wfVars == <<pc, exc, wfLocals, BIDS_APP_INPUTS, dirs, ntemp, ncalls>>

storeVars == <<store_json_edits, columns, cells, connection, log>>

tbVars == <<tb_pc, tb_exc, tb_args, tb_je_args, tb_i, tb_out>>

ebVars == <<fs, eb_pc, eb_exc, eb_args, eb_i, eb_output_paths, eb_out,
           eb_calls>>

taskVars == <<storeVars, tbVars, ebVars, parked>>

vars == <<wfVars, taskVars>>

(***************************************************************************)
(* Bounds of the model.                                                     *)
(***************************************************************************)
MaxParams == 2          \* most dynamic parameters in one call
MaxConstructions == 2   \* most BidsApp constructions in one behaviour
MaxEditLen == 5         \* longest user json_edits string, in characters
MaxExtracts == 2        \* most ExtractBids calls in one behaviour

(***************************************************************************)
(* Python values.                                                           *)
(***************************************************************************)
None == "None"
Unset == "<unset>"      \* a str local that has not been assigned yet
UnsetObj == [kind |-> "unset"]   \* an object local not assigned yet
NoneObj == [kind |-> "None"]     \* None where an object may be given
Dict(items) == [kind |-> "dict", items |-> items]
NoExc == [type |-> "none"]

\* the frames of ToBids and ExtractBids of a run that has called neither
IdleFrame ==
    [tb_pc |-> "idle", tb_exc |-> NoExc, tb_args |-> UnsetObj,
     tb_je_args |-> << >>, tb_i |-> 0, tb_out |-> UnsetObj,
     eb_pc |-> "idle", eb_exc |-> NoExc, eb_args |-> UnsetObj,
     eb_i |-> 0, eb_output_paths |-> << >>, eb_out |-> UnsetObj]

NameError(n, line) == [type |-> "NameError", name |-> n, line |-> line,
                       origin |-> "BidsApp"]

CONTAINER_DERIV_PATH == "/frametree_bids_outputs"
CONTAINER_DATASET_PATH == "/frametree_bids_dataset"
DEFAULT_BIDS_ID == "DEFAULT"

\* The names bound in BidsApp's scope or in the module's: a name outside this
\* set raises NameError when it is read.  `kwargs' (lines 224, 244) and
\* `output_fields' (line 231) are read and never assigned.
BoundNames == {"name", "row_id", "inputs", "outputs", "executable",
               "container_image", "parameters", "row_frequency",
               "container_type", "dataset", "app_output_dir", "app_work_dir",
               "json_edits", "flags", "input_names", "output_names", "to_bids",
               "SelectInputs", "input_fields", "param", "argstr",
               "app_output_path", "environment", "analysis_level", "MainTask",
               "main_task", "extract_bids", "output_name",
               "CONTAINER_DERIV_PATH", "CONTAINER_DATASET_PATH",
               "DEFAULT_BIDS_ID", "ToBids", "ExtractBids", "BIDS_APP_INPUTS",
               "BIDS_APP_OUTPUTS", "BidsInput", "BidsOutput", "logger"}

IsBound(n) == n \in BoundNames

\* Clinical[row_frequency]: the enum member of that name.
ClinicalMembers == {"Clinical.session", "Clinical.subject", "Clinical.dataset"}
ClinicalByName(s) == "Clinical." \o s

\* str(n) for the small integers the model needs.
Digits == <<"1", "2", "3", "4", "5", "6", "7", "8", "9", "10", "11", "12",
            "13", "14", "15", "16">>
TmpDir(n) == "/tmp/tmp" \o Digits[n]

(***************************************************************************)
(* A field of a shell task: the tuple (name, type, metadata).               *)
(***************************************************************************)
Field(n, t, meta) == [name |-> n, type |-> t, meta |-> meta]

BIDS_APP_INPUTS_Value ==
    << Field("dataset_path", "Directory",
             [help_string |-> "Path to BIDS dataset in the container",
              position |-> 1, mandatory |-> TRUE,
              argstr |-> "'{dataset_path}'"]),
       Field("output_path", "Path",
             [help_string |-> "Directory where outputs will be written in the container",
              position |-> 2, argstr |-> "'{output_path}'"]),
       Field("analysis_level", "str",
             [help_string |-> "The analysis level the app will be run at",
              position |-> 3, argstr |-> ""]),
       Field("participant_label", "str",
             [help_string |-> "The IDs to include in the analysis",
              argstr |-> "--participant-label ", position |-> 4]),
       Field("flags", "str",
             [help_string |-> "Additional flags to pass to the app",
              argstr |-> "", position |-> -1]),
       Field("work_dir", "Path",
             [help_string |-> "Directory where the nipype temporary working directories will be stored",
              argstr |-> "--work-dir '{work_dir}'"]),
       Field("setup_completed", "bool",
             [help_string |-> "Dummy field to ensure that the BIDS dataset construction completes first"]) >>

BIDS_APP_OUTPUTS_Value ==
    << Field("completed", "bool",
             [help_string |-> "a simple flag to indicate app has completed",
              callable |-> "lambda: True"]) >>

(***************************************************************************)
(* Input domains of BidsApp.                                                *)
(***************************************************************************)
ParamNames == {"verbose", "threads"}
ParamTypes == {"bool", "int"}

\* dicts {name: type} of at most MaxParams items, as item sequences
ParamDicts ==
    { p \in UNION { [1..n -> ParamNames \X ParamTypes] : n \in 0..MaxParams } :
        \A i, j \in DOMAIN p : i # j => p[i][1] # p[j][1] }

BidsInput(n, path, datatype) == [name |-> n, path |-> path, datatype |-> datatype]
BidsOutput(n, datatype, path) == [name |-> n, datatype |-> datatype, path |-> path]

\* a list of distinct names, and one that names T1w twice
InputLists == { << BidsInput("T1w", "anat/T1w", "NiftiGzX"),
                   BidsInput("bold", "func/bold", "NiftiGzX") >>,
                << BidsInput("T1w", "anat/T1w", "NiftiGzX"),
                   BidsInput("T1w", "anat/T1w_copy", "NiftiGzX") >> }

\* a list of distinct names, and one that names recon twice
OutputLists == { << BidsOutput("recon", "Directory", "freesurfer/recon-all"),
                    BidsOutput("whole", "Directory", None) >>,
                 << BidsOutput("recon", "Directory", "freesurfer/recon-all"),
                    BidsOutput("recon", "Directory", "stats/summary") >> }

RowIds == {"01", "02"}
RowFrequencyArgs == {"session", "dataset", "Clinical.session", "Clinical.subject"}
ImageArgs == {None, "bids/app:1.0"}
DirArgs == {None, "/data/out"}
FlagArgs == {"", "--skip-bids-validation"}
DatasetArgs == { NoneObj, [kind |-> "path", id |-> "/data/bids"],
                 [kind |-> "FrameSet", id |-> "/data/bids",
                  name |-> "given_dataset", leaves |-> << <<"01">>, <<"02">> >>] }

(***************************************************************************)
(* BidsApp, lines 50-269.                                                   *)
(***************************************************************************)
\* the locals of a call before their assignment (a list local holds << >>)
ClearedLocals(in_names, out_names, fields, env, out_path, level, nds) ==
    /\ in_names = << >> /\ out_names = << >> /\ fields = << >>
    /\ env = UnsetObj /\ out_path = Unset
    /\ level = Unset /\ nds = << >>

\* The call BidsApp(name=..., row_id=..., ...): binds the arguments.
BidsApp_Call ==
    /\ pc = "idle"
    /\ ncalls < MaxConstructions
    /\ ncalls' = ncalls + 1
    /\ pc' = "L123"
    /\ exc' = NoExc
    /\ name' = "myapp"
    /\ row_id' \in RowIds
    /\ inputs' \in InputLists
    /\ outputs' \in OutputLists
    /\ container_image' \in ImageArgs
    /\ parameters' \in {NoneObj} \cup { Dict(p) : p \in ParamDicts }
    /\ row_frequency' \in RowFrequencyArgs
    /\ dataset' \in DatasetArgs
    /\ app_output_dir' \in DirArgs
    /\ app_work_dir' = None
    /\ flags' \in FlagArgs
    /\ ClearedLocals(input_names', output_names', input_fields', environment',
                     app_output_path', analysis_level', nodes')
    /\ UNCHANGED <<BIDS_APP_INPUTS, dirs, ntemp>>
    /\ UNCHANGED taskVars

\* lines 123-137: defaults of parameters, app_output_dir, app_work_dir and
\* row_frequency; each directory is a fresh mkdtemp() or is created.
BidsApp_Defaults ==
    /\ pc = "L123"
    /\ parameters' = IF parameters = NoneObj THEN Dict(<< >>) ELSE parameters
    /\ LET nOut == IF app_output_dir = None THEN ntemp + 1 ELSE ntemp
           out == IF app_output_dir = None THEN TmpDir(nOut) ELSE app_output_dir
           nWork == IF app_work_dir = None THEN nOut + 1 ELSE nOut
           work == IF app_work_dir = None THEN TmpDir(nWork) ELSE app_work_dir
       IN /\ app_output_dir' = out
          /\ app_work_dir' = work
          /\ ntemp' = nWork
          /\ dirs' = dirs \cup {out, work}
    /\ row_frequency' = IF row_frequency \in ClinicalMembers
                          THEN row_frequency
                          ELSE ClinicalByName(row_frequency)
    /\ pc' = "L140"
    /\ UNCHANGED <<exc, name, row_id, inputs, outputs, container_image, dataset,
                   flags, input_names, output_names, input_fields, environment,
                   app_output_path, analysis_level, nodes, BIDS_APP_INPUTS,
                   ncalls>>
    /\ UNCHANGED taskVars

\* lines 140-153: the dataset, created at the given path or at a fresh
\* temporary one, with the single leaf DEFAULT_BIDS_ID.
BidsApp_CreateDataset ==
    /\ pc = "L140"
    /\ LET n == IF dataset.kind = "None" THEN ntemp + 1 ELSE ntemp
           id == IF dataset.kind = "None"
                   THEN TmpDir(n) \o "/frametree_bids_dataset"
                   ELSE dataset.id
       IN /\ ntemp' = n
          /\ dirs' = IF dataset.kind = "FrameSet"
                       THEN dirs
                       ELSE dirs \cup {id} \cup
                            (IF dataset.kind = "None" THEN {TmpDir(n)} ELSE {})
          /\ dataset' = IF dataset.kind = "FrameSet"
                          THEN dataset
                          ELSE [kind |-> "FrameSet", id |-> id,
                                name |-> name \o "_dataset",
                                leaves |-> << <<DEFAULT_BIDS_ID>> >>]
    /\ pc' = "L156"
    /\ UNCHANGED <<exc, name, row_id, inputs, outputs, container_image,
                   parameters, row_frequency, app_output_dir, app_work_dir,
                   flags, input_names, output_names, input_fields, environment,
                   app_output_path, analysis_level, nodes, BIDS_APP_INPUTS,
                   ncalls>>
    /\ UNCHANGED taskVars

\* lines 156-161: the field descriptors and their names.
BidsApp_ConvertFields ==
    /\ pc = "L156"
    /\ input_names' = [i \in DOMAIN inputs |-> inputs[i].name]
    /\ output_names' = [i \in DOMAIN outputs |-> outputs[i].name]
    /\ pc' = "L169"
    /\ UNCHANGED <<exc, name, row_id, inputs, outputs, container_image,
                   parameters, row_frequency, dataset, app_output_dir,
                   app_work_dir, flags, input_fields, environment,
                   app_output_path, analysis_level, nodes, BIDS_APP_INPUTS,
                   dirs, ntemp, ncalls>>
    /\ UNCHANGED taskVars

\* lines 169-177: workflow.add(ToBids(...)); its arguments are all values, so
\* the node waits for no other node.
BidsApp_AddToBids ==
    /\ pc = "L169"
    /\ nodes' = Append(nodes,
                  [node |-> "to_bids", task |-> "ToBids",
                   args |-> [row_frequency |-> row_frequency, inputs |-> inputs,
                             dataset |-> dataset, id |-> row_id,
                             json_edits |-> None],
                   waits_for |-> {}])
    /\ pc' = "L197"
    /\ UNCHANGED <<exc, name, row_id, inputs, outputs, container_image,
                   parameters, row_frequency, dataset, app_output_dir,
                   app_work_dir, flags, input_names, output_names, input_fields,
                   environment, app_output_path, analysis_level,
                   BIDS_APP_INPUTS, dirs, ntemp, ncalls>>
    /\ UNCHANGED taskVars

(***************************************************************************)
(* lines 197-209: input_fields = copy(BIDS_APP_INPUTS), then one field per  *)
(* item of parameters.items().  `param' is the item, a (name, type) tuple:  *)
(* the f-string formats the tuple, and type(param) is tuple.  The field is  *)
(* (param, type(param), {...}); its name, the tuple, is kept as its str().  *)
(***************************************************************************)
\* str(param) of a tuple (name, type): "('verbose', <class 'bool'>)"
StrOfItem(param) == "('" \o param[1] \o "', <class '" \o param[2] \o "'>)"

\* type(param): the class of the item itself
TypeOfItem(param) == "tuple"

\* lines 200-202
ParamArgstr(param) ==
    "--" \o StrOfItem(param) \o
    (IF TypeOfItem(param) # "bool" THEN " %s" ELSE "")

\* lines 203-209
ParamField(param) ==
    Field(StrOfItem(param), TypeOfItem(param),
          [help_string |-> "Optional parameter " \o StrOfItem(param),
           argstr |-> ParamArgstr(param)])

\* copy(l): a new list with the same items
CopyOf(l) == [i \in DOMAIN l |-> l[i]]

\* the list input_fields names after the loop
FieldsWithParams(base, params) ==
    CopyOf(base) \o [i \in DOMAIN params |-> ParamField(params[i])]

\* a variant in which input_fields is the module-level list itself
BaseAfterAppends_Aliased(base, params) ==
    base \o [i \in DOMAIN params |-> ParamField(params[i])]

\* what the module-level list holds after the loop: the appends go to the
\* copy, not to it
BaseAfterAppends(base, params) == base

BidsApp_BuildInputFields ==
    /\ pc = "L197"
    /\ input_fields' = FieldsWithParams(BIDS_APP_INPUTS, parameters.items)
    /\ BIDS_APP_INPUTS' = BaseAfterAppends(BIDS_APP_INPUTS, parameters.items)
    /\ pc' = "L215"
    /\ UNCHANGED <<exc, name, row_id, inputs, outputs, container_image,
                   parameters, row_frequency, dataset, app_output_dir,
                   app_work_dir, flags, input_names, output_names, environment,
                   app_output_path, analysis_level, nodes, dirs, ntemp, ncalls>>
    /\ UNCHANGED taskVars

(***************************************************************************)
(* lines 215-220: the execution environment and the output path argument.   *)
(***************************************************************************)
Native == [kind |-> "Native"]
Docker(image) == [kind |-> "Docker", image |-> image]

EnvironmentFor(image) == IF image = None THEN Native ELSE Docker(image)

\* a variant that gives the app the host directory in every environment
OutputPathFor_HostAlways(image, host_dir) == host_dir

OutputPathFor(image, host_dir) ==
    IF image = None THEN host_dir ELSE CONTAINER_DERIV_PATH

BidsApp_SelectEnvironment ==
    /\ pc = "L215"
    /\ environment' = EnvironmentFor(container_image)
    /\ app_output_path' = OutputPathFor(container_image, app_output_dir)
    /\ pc' = "L222"
    /\ UNCHANGED <<exc, name, row_id, inputs, outputs, container_image,
                   parameters, row_frequency, dataset, app_output_dir,
                   app_work_dir, flags, input_names, output_names, input_fields,
                   analysis_level, nodes, BIDS_APP_INPUTS, dirs, ntemp, ncalls>>
    /\ UNCHANGED taskVars

(***************************************************************************)
(* lines 222-226: the analysis level.  The session branch then stores the   *)
(* participant label in `kwargs', a name that is bound nowhere.             *)
(***************************************************************************)
AnalysisLevelFor(freq) ==
    IF freq = "Clinical.session" THEN "participant" ELSE "group"

BidsApp_SelectAnalysisLevel ==
    /\ pc = "L222"
    /\ analysis_level' = AnalysisLevelFor(row_frequency)
    /\ IF row_frequency = "Clinical.session" /\ ~IsBound("kwargs")
         THEN pc' = "raised" /\ exc' = NameError("kwargs", 224)
         ELSE pc' = "L228" /\ exc' = exc
    /\ UNCHANGED <<name, row_id, inputs, outputs, container_image, parameters,
                   row_frequency, dataset, app_output_dir, app_work_dir, flags,
                   input_names, output_names, input_fields, environment,
                   app_output_path, nodes, BIDS_APP_INPUTS, dirs, ntemp, ncalls>>
    /\ UNCHANGED taskVars

(***************************************************************************)
(* lines 228-232: shell.define(executable, inputs=input_fields,             *)
(* outputs=output_fields).  `output_fields' is bound nowhere, so evaluating *)
(* the arguments raises before shell.define is called.                      *)
(***************************************************************************)
BidsApp_DefineMainTask ==
    /\ pc = "L228"
    /\ IF ~IsBound("output_fields")
         THEN pc' = "raised" /\ exc' = NameError("output_fields", 231)
         ELSE pc' = "L234" /\ exc' = exc
    /\ UNCHANGED <<wfLocals, BIDS_APP_INPUTS, dirs, ntemp, ncalls>>
    /\ UNCHANGED taskVars

(***************************************************************************)
(* lines 234-269 add main_task (waiting for to_bids.completed), set its     *)
(* bindings, add extract_bids (waiting for main_task.completed and          *)
(* to_bids.frameset) and connect the workflow's outputs.  No call gets past *)
(* line 231 (CtorNeverPastLine231), so they are no step of the model.       *)
(***************************************************************************)
CtorNeverPastLine231 == pc \in {"idle", "L123", "L140", "L156", "L169",
                                "L197", "L215", "L222", "L228", "raised"}

\* The exception leaves BidsApp: its frame, and with it the workflow under
\* construction, is dropped; the caller is left with the exception.
BidsApp_Unwind ==
    /\ pc = "raised"
    /\ pc' = "idle"
    /\ name' = Unset /\ row_id' = Unset /\ inputs' = << >> /\ outputs' = << >>
    /\ container_image' = Unset /\ parameters' = UnsetObj
    /\ row_frequency' = Unset /\ dataset' = UnsetObj
    /\ app_output_dir' = Unset /\ app_work_dir' = Unset /\ flags' = Unset
    /\ ClearedLocals(input_names', output_names', input_fields', environment',
                     app_output_path', analysis_level', nodes')
    /\ UNCHANGED <<exc, BIDS_APP_INPUTS, dirs, ntemp, ncalls>>
    /\ UNCHANGED taskVars

InitWf ==
    /\ pc = "idle"
    /\ exc = NoExc
    /\ name = Unset /\ row_id = Unset /\ inputs = << >> /\ outputs = << >>
    /\ container_image = Unset /\ parameters = UnsetObj
    /\ row_frequency = Unset /\ dataset = UnsetObj
    /\ app_output_dir = Unset /\ app_work_dir = Unset /\ flags = Unset
    /\ ClearedLocals(input_names, output_names, input_fields, environment,
                     app_output_path, analysis_level, nodes)
    /\ BIDS_APP_INPUTS = BIDS_APP_INPUTS_Value
    /\ dirs = {"/data/bids"}
    /\ ntemp = 0
    /\ ncalls = 0

\* the tasks are not running and the store is empty
InitTasksIdle ==
    /\ store_json_edits = << >> /\ columns = << >> /\ cells = << >>
    /\ connection = "closed" /\ log = << >>
    /\ tb_pc = "idle" /\ tb_exc = NoExc /\ tb_args = UnsetObj
    /\ tb_je_args = << >> /\ tb_i = 0 /\ tb_out = UnsetObj
    /\ fs = << >>
    /\ eb_pc = "idle" /\ eb_exc = NoExc /\ eb_args = UnsetObj
    /\ eb_i = 0 /\ eb_output_paths = << >> /\ eb_out = UnsetObj
    /\ eb_calls = 0
    /\ parked = IdleFrame

Init == InitWf /\ InitTasksIdle

Next ==
    \/ BidsApp_Call
    \/ BidsApp_Defaults
    \/ BidsApp_CreateDataset
    \/ BidsApp_ConvertFields
    \/ BidsApp_AddToBids
    \/ BidsApp_BuildInputFields
    \/ BidsApp_SelectEnvironment
    \/ BidsApp_SelectAnalysisLevel
    \/ BidsApp_DefineMainTask
    \/ BidsApp_Unwind

Spec == Init /\ [][Next]_vars

(***************************************************************************)
(* The command line of the shell task.  A field is an argument when its     *)
(* metadata has an argstr; arguments are ordered by their "position":       *)
(* the positive positions ascending, then the fields without a position in  *)
(* the order of the list, then the negative positions ascending (so that    *)
(* -1 is last).                                                             *)
(***************************************************************************)
HasArgstr(f) == "argstr" \in DOMAIN f.meta
HasPosition(f) == "position" \in DOMAIN f.meta

PositionBefore(f, g) == f.meta.position < g.meta.position

\* a variant that keeps the order of the list, whatever the positions
position_sort_Declared(fields) == fields

position_sort(fields) ==
    LET IsPos(f) == HasPosition(f) /\ f.meta.position >= 0
        IsFree(f) == ~HasPosition(f)
        IsNeg(f) == HasPosition(f) /\ f.meta.position < 0
    IN SortSeq(SelectSeq(fields, IsPos), PositionBefore)
       \o SelectSeq(fields, IsFree)
       \o SortSeq(SelectSeq(fields, IsNeg), PositionBefore)

\* the names of the arguments in the order they take on the command line
CommandOrder(fields) ==
    LET args == position_sort(SelectSeq(fields, HasArgstr))
    IN [i \in DOMAIN args |-> args[i].name]

(***************************************************************************)
(* shlex.split(s): POSIX shell-style tokens.  Whitespace separates tokens,  *)
(* a single quote opens a quoted part that runs to the next single quote    *)
(* (the quotes themselves are dropped), and a quoted part may be empty.     *)
(* A string is a sequence of one-character strings.  The result is          *)
(* [ok, tokens]; ok is FALSE for ValueError("No closing quotation").        *)
(***************************************************************************)
RECURSIVE read_tokens(_, _, _, _, _, _)
read_tokens(s, i, state, token, quoted, out) ==
    IF i > Len(s)
      THEN IF state = "'"
             THEN [ok |-> FALSE, tokens |-> out]
             ELSE [ok |-> TRUE,
                   tokens |-> IF token # << >> \/ quoted
                                THEN Append(out, token) ELSE out]
      ELSE LET c == s[i] IN
           CASE state = " " ->
                  IF c = " "
                    THEN IF token # << >> \/ quoted
                           THEN read_tokens(s, i + 1, " ", << >>, FALSE,
                                            Append(out, token))
                           ELSE read_tokens(s, i + 1, " ", token, quoted, out)
                    ELSE IF c = "'"
                           THEN read_tokens(s, i + 1, "'", token, TRUE, out)
                           ELSE read_tokens(s, i + 1, "a", <<c>>, quoted, out)
             [] state = "'" ->
                  IF c = "'"
                    THEN read_tokens(s, i + 1, "a", token, TRUE, out)
                    ELSE read_tokens(s, i + 1, "'", Append(token, c), TRUE, out)
             [] OTHER ->
                  IF c = " "
                    THEN IF token # << >> \/ quoted
                           THEN read_tokens(s, i + 1, " ", << >>, FALSE,
                                            Append(out, token))
                           ELSE read_tokens(s, i + 1, " ", token, quoted, out)
                    ELSE IF c = "'"
                           THEN read_tokens(s, i + 1, "'", token, TRUE, out)
                           ELSE read_tokens(s, i + 1, "a", Append(token, c),
                                            quoted, out)

shlex_split(s) == read_tokens(s, 1, " ", << >>, FALSE, << >>)

\* list(zip(l[::2], l[1::2])): the pairs of consecutive items; zip stops at
\* the shorter list, so the last item of an odd-length list is in no pair
zip_pairs(l) == [k \in 1..(Len(l) \div 2) |-> <<l[2 * k - 1], l[2 * k]>>]

\* a variant that puts the user's pairs before the fixed edits
EffectiveEdits_UserFirst(fixed_json_edits, je_args) ==
    zip_pairs(je_args) \o fixed_json_edits

\* line 305: the edits ToBids installs
EffectiveEdits(fixed_json_edits, je_args) ==
    fixed_json_edits \o zip_pairs(je_args)

(***************************************************************************)
(* The FrameSet interface the tasks use.                                    *)
(***************************************************************************)
Sink(n, datatype, path) == [name |-> n, datatype |-> datatype, path |-> path]

ColumnNames(cols) == { cols[i].name : i \in DOMAIN cols }

\* frameset.add_sink(name, datatype, path=path) with a new name
add_sink(cols, sink) == Append(cols, sink)

\* ... with overwrite: the sink of that name is replaced
replace_sink(cols, sink) ==
    [i \in DOMAIN cols |-> IF cols[i].name = sink.name THEN sink ELSE cols[i]]

\* the rows of the dataset at a frequency
RowIdsOfDataset == {"01", "02", DEFAULT_BIDS_ID}

\* a variant that stores the item without the edits of the store
StoredItem_NoEdits(value, edits) == [value |-> value, edits |-> << >>]

\* row[name] = value: the item is stored with the sidecar edits installed on
\* the store at the time of the write
StoredItem(value, edits) == [value |-> value, edits |-> edits]

CellKey(freq, id, column) == <<freq, id, column>>

\* a variant that loses the write
WriteCell_Lost(c, key, item) == c

WriteCell(c, key, item) ==
    [k \in DOMAIN c \cup {key} |-> IF k = key THEN item ELSE c[k]]

\* row[name]: the value stored in the cell (a read of a cell that was never
\* written finds nothing)
RowValue(c, key) == IF key \in DOMAIN c THEN c[key].value ELSE "<not found>"

NOTHING == "attrs.NOTHING"

\* `with store.connection': entering the block opens the connection, leaving
\* it, by its end or by an exception, closes it
EnterConnection(conn) == "open"

\* a variant that leaves the connection as it is
ExitConnection_LeftOpen(conn) == conn

ExitConnection(conn) == "closed"

\* a variant that takes every value as provided
IsAbsent_Never(inpt_value) == FALSE

\* line 312: inpt_value is attrs.NOTHING
IsAbsent(inpt_value) == inpt_value = NOTHING

TaskError(type, line, origin) == [type |-> type, line |-> line, origin |-> origin]

(***************************************************************************)
(* Input domains of ToBids.                                                 *)
(***************************************************************************)
Alphabet == {"a", "2", " ", "'"}
Strings(n) == UNION { [1..k -> Alphabet] : k \in 0..n }
Str(chars) == [kind |-> "str", chars |-> chars]

\* "a 2 b 3" and "a 2 b"
ExampleEdits == { <<"a", " ", "2", " ", "b", " ", "3">>,
                  <<"a", " ", "2", " ", "b">> }

\* fixed_json_edits: [] and [("a", "1")]
FixedEditsArgs == { << >>, << << <<"a">>, <<"1">> >> >> }

TbInputLists == InputLists \cup
    { << BidsInput("T1w", "anat/T1w", "NiftiGzX") >>,
      << BidsInput("T1w", "anat/T1w", "NiftiGzX"),
         BidsInput("T1w", "anat/T1w_copy", "NiftiGzX") >> }

\* the names of the descriptors, each once, in the order of first occurrence
DistinctNames(inpts) ==
    LET firsts == { i \in DOMAIN inpts :
                      \A j \in 1..(i - 1) : inpts[j].name # inpts[i].name }
        nth(k) == CHOOSE i \in firsts :
                      Cardinality({ j \in firsts : j < i }) = k - 1
    IN [k \in 1..Cardinality(firsts) |-> inpts[nth(k)].name]

\* **input_values: a dict, so one item per input name: a value or
\* attrs.NOTHING
InputValuesFor(inpts) ==
    LET names == DistinctNames(inpts)
        Values(n) == {"/tmp/" \o n \o ".nii.gz", NOTHING}
    IN { v \in [DOMAIN names -> (ColumnNames(inpts) \X
                                 UNION { Values(n) : n \in ColumnNames(inpts) })] :
           \A i \in DOMAIN names :
              /\ v[i][1] = names[i]
              /\ v[i][2] \in Values(names[i]) }

ToBidsArgs(freq, inpts, id, edits, fixed, values) ==
    [row_frequency |-> freq, inputs |-> inpts, id |-> id, json_edits |-> edits,
     fixed_json_edits |-> fixed, input_values |-> values]

\* every user string with one default set of the other arguments, and a few
\* user strings with every combination of the other arguments
ToBidsCalls ==
    { ToBidsArgs("Clinical.session", inpts, "01", Str(c), fixed,
                 << <<"T1w", "/tmp/T1w.nii.gz">> >>) :
        inpts \in { << BidsInput("T1w", "anat/T1w", "NiftiGzX") >> },
        c \in Strings(MaxEditLen) \cup ExampleEdits,
        fixed \in FixedEditsArgs }
    \cup
    UNION { { ToBidsArgs("Clinical.session", inpts, id, edits, fixed, values) :
                id \in {"01", "02", "99"},
                edits \in {NoneObj, Str(<<"a", " ", "2">>)},
                fixed \in FixedEditsArgs,
                values \in InputValuesFor(inpts) } :
            inpts \in TbInputLists }

(***************************************************************************)
(* ToBids, lines 291-316.                                                   *)
(***************************************************************************)
ToBids_Call ==
    /\ tb_pc = "idle"
    /\ tb_args = UnsetObj
    /\ tb_args' \in ToBidsCalls
    /\ tb_pc' = "L303"
    /\ UNCHANGED <<tb_exc, tb_je_args, tb_i, tb_out, storeVars, ebVars, wfVars, parked>>

\* line 303: je_args = shlex.split(json_edits) if json_edits else []
ToBids_SplitEdits ==
    /\ tb_pc = "L303"
    /\ LET falsy == tb_args.json_edits = NoneObj
                    \/ tb_args.json_edits = Str(<< >>)
           lexed == IF falsy THEN [ok |-> TRUE, tokens |-> << >>]
                             ELSE shlex_split(tb_args.json_edits.chars)
       IN IF lexed.ok
            THEN /\ tb_je_args' = lexed.tokens
                 /\ tb_pc' = "L304"
                 /\ tb_exc' = tb_exc
            ELSE /\ tb_je_args' = tb_je_args
                 /\ tb_pc' = "raised"
                 /\ tb_exc' = TaskError("ValueError", 303, "ToBids")
    /\ UNCHANGED <<tb_args, tb_i, tb_out, storeVars, ebVars, wfVars, parked>>

\* lines 304-306: the store's edits are replaced by the fixed edits followed
\* by the user's pairs
ToBids_InstallEdits ==
    /\ tb_pc = "L304"
    /\ store_json_edits' = EffectiveEdits(tb_args.fixed_json_edits, tb_je_args)
    /\ tb_pc' = "L307"
    /\ tb_i' = 1
    /\ UNCHANGED <<tb_exc, tb_args, tb_je_args, tb_out, columns, cells,
                   connection, log, ebVars, wfVars, parked>>

\* lines 307-308, one iteration: frameset.add_sink(inpt.name, ...).  A sink
\* of that name may exist already: the frameset then either refuses the new
\* one or replaces the old one.
ToBids_AddSink ==
    /\ tb_pc = "L307"
    /\ tb_i <= Len(tb_args.inputs)
    /\ LET inpt == tb_args.inputs[tb_i]
           sink == Sink(inpt.name, inpt.datatype, inpt.path)
       IN \/ /\ inpt.name \notin ColumnNames(columns)
             /\ columns' = add_sink(columns, sink)
             /\ tb_i' = tb_i + 1
             /\ UNCHANGED <<tb_pc, tb_exc>>
          \/ /\ inpt.name \in ColumnNames(columns)
             /\ columns' = replace_sink(columns, sink)
             /\ tb_i' = tb_i + 1
             /\ UNCHANGED <<tb_pc, tb_exc>>
          \/ /\ inpt.name \in ColumnNames(columns)
             /\ tb_pc' = "raised"
             /\ tb_exc' = TaskError("NameClash", 308, "ToBids")
             /\ UNCHANGED <<columns, tb_i>>
    /\ UNCHANGED <<tb_args, tb_je_args, tb_out, store_json_edits, cells,
                   connection, log, ebVars, wfVars, parked>>

\* line 309: row = frameset.row(row_frequency, id), after the loop
ToBids_GetRow ==
    /\ tb_pc = "L307"
    /\ tb_i > Len(tb_args.inputs)
    /\ IF tb_args.id \in RowIdsOfDataset
         THEN tb_pc' = "L310" /\ tb_exc' = tb_exc
         ELSE tb_pc' = "raised" /\ tb_exc' = TaskError("NoSuchRow", 309, "ToBids")
    /\ UNCHANGED <<tb_args, tb_je_args, tb_i, tb_out, storeVars, ebVars, wfVars, parked>>

\* line 310: with frameset.store.connection
ToBids_Connect ==
    /\ tb_pc = "L310"
    /\ connection' = EnterConnection(connection)
    /\ tb_pc' = "L311"
    /\ tb_i' = 1
    /\ UNCHANGED <<tb_exc, tb_args, tb_je_args, tb_out, store_json_edits,
                   columns, cells, log, ebVars, wfVars, parked>>

\* lines 311-315, one iteration: a missing value is logged and skipped, any
\* other is written to the row.  A write the store refuses raises, and the
\* with statement closes the connection as the exception leaves it.
ToBids_WriteInput ==
    /\ tb_pc = "L311"
    /\ tb_i <= Len(tb_args.input_values)
    /\ LET inpt_name == tb_args.input_values[tb_i][1]
           inpt_value == tb_args.input_values[tb_i][2]
       IN IF IsAbsent(inpt_value)
            THEN /\ log' = Append(log, <<"No input provided", inpt_name>>)
                 /\ tb_i' = tb_i + 1
                 /\ UNCHANGED <<cells, connection, tb_pc, tb_exc>>
            ELSE \/ /\ cells' = WriteCell(cells,
                                   CellKey(tb_args.row_frequency, tb_args.id,
                                           inpt_name),
                                   StoredItem(inpt_value, store_json_edits))
                    /\ tb_i' = tb_i + 1
                    /\ UNCHANGED <<log, connection, tb_pc, tb_exc>>
                 \/ /\ tb_pc' = "raised"
                    /\ tb_exc' = TaskError("StoreWriteError", 315, "ToBids")
                    /\ connection' = ExitConnection(connection)
                    /\ UNCHANGED <<log, cells, tb_i>>
    /\ UNCHANGED <<tb_args, tb_je_args, tb_out, store_json_edits, columns,
                   ebVars, wfVars, parked>>

\* the end of the with block: the connection is closed
ToBids_Disconnect ==
    /\ tb_pc = "L311"
    /\ tb_i > Len(tb_args.input_values)
    /\ connection' = ExitConnection(connection)
    /\ tb_pc' = "L316"
    /\ UNCHANGED <<tb_exc, tb_args, tb_je_args, tb_i, tb_out, store_json_edits,
                   columns, cells, log, ebVars, wfVars, parked>>

\* line 316: return (frameset, True)
ToBids_Return ==
    /\ tb_pc = "L316"
    /\ tb_out' = [frameset |-> "frameset", completed |-> TRUE]
    /\ tb_pc' = "returned"
    /\ UNCHANGED <<tb_exc, tb_args, tb_je_args, tb_i, storeVars, ebVars, wfVars, parked>>

\* the frameset ToBids is given: sinks and edits of an earlier use may be on it
InitToBids ==
    /\ InitWf
    /\ store_json_edits \in { << >>, << << <<"2">>, <<"a">> >> >> }
    /\ columns \in { << >>, << Sink("T1w", "NiftiGzX", "anat/T1w") >> }
    /\ cells = << >>
    /\ connection = "closed" /\ log = << >>
    /\ tb_pc = "idle" /\ tb_exc = NoExc /\ tb_args = UnsetObj
    /\ tb_je_args = << >> /\ tb_i = 0 /\ tb_out = UnsetObj
    /\ fs = << >>
    /\ eb_pc = "idle" /\ eb_exc = NoExc /\ eb_args = UnsetObj
    /\ eb_i = 0 /\ eb_output_paths = << >> /\ eb_out = UnsetObj
    /\ eb_calls = 0
    /\ parked = IdleFrame

NextToBids ==
    \/ ToBids_Call
    \/ ToBids_SplitEdits
    \/ ToBids_InstallEdits
    \/ ToBids_AddSink
    \/ ToBids_GetRow
    \/ ToBids_Connect
    \/ ToBids_WriteInput
    \/ ToBids_Disconnect
    \/ ToBids_Return

SpecToBids == InitToBids /\ [][NextToBids]_vars

(***************************************************************************)
(* The host file system and the derivatives of the dataset.                 *)
(***************************************************************************)
\* Path(dataset.id) / "derivatives" / app_name / ("sub-" + id)
DerivativesDir(dataset_id, app_name, id) ==
    dataset_id \o "/derivatives/" \o app_name \o "/sub-" \o id

\* a variant with dirs_exist_ok=True: an existing destination is merged into
copytree_DirsExistOk(files, src, dst) ==
    IF src \notin DOMAIN files
      THEN [ok |-> FALSE, fs |-> files, error |-> "FileNotFoundError"]
      ELSE [ok |-> TRUE,
            fs |-> [d \in DOMAIN files \cup {dst} |->
                      IF d = dst
                        THEN (IF dst \in DOMAIN files THEN files[dst] ELSE {})
                             \cup files[src]
                        ELSE files[d]],
            error |-> "none"]

\* a variant that reports no failure of the copy
copytree_IgnoreErrors(files, src, dst) ==
    IF src \notin DOMAIN files \/ dst \in DOMAIN files
      THEN [ok |-> TRUE, fs |-> files, error |-> "none"]
      ELSE [ok |-> TRUE,
            fs |-> [d \in DOMAIN files \cup {dst} |->
                      IF d = dst THEN files[src] ELSE files[d]],
            error |-> "none"]

\* shutil.copytree(src, dst): [ok, fs, error].  The source must be a
\* directory and the destination must not exist; the whole tree is copied.
copytree(files, src, dst) ==
    IF src \notin DOMAIN files
      THEN [ok |-> FALSE, fs |-> files, error |-> "FileNotFoundError"]
      ELSE IF dst \in DOMAIN files
             THEN [ok |-> FALSE, fs |-> files, error |-> "FileExistsError"]
             ELSE [ok |-> TRUE,
                   fs |-> [d \in DOMAIN files \cup {dst} |->
                             IF d = dst THEN files[src] ELSE files[d]],
                   error |-> "none"]

\* lines 352-356: the path of an output's sink
SinkPath(output, app_name) ==
    (IF output.path # None /\ output.path # "" THEN output.path ELSE "")
    \o "@" \o app_name

AppNames == {"myapp", "otherapp"}
OutputPaths == {"freesurfer/recon-all", "stats/summary"}
TreeA == {"freesurfer/recon-all", "log.txt"}
TreeB == {"stats/summary"}

\* the column of that name
Column(cols, n) == cols[CHOOSE i \in DOMAIN cols : cols[i].name = n]

\* row[name] of a derivatives sink "<path>@<app>": the item at that path of
\* the app's derivatives for the row ("" is the whole directory), or
\* NotFound when nothing is stored there
NotFound == "<not found>"

ReadDerivative(files, dataset_id, id, sink_path) ==
    LET parts == { pa \in (OutputPaths \cup {""}) \X AppNames :
                     pa[1] \o "@" \o pa[2] = sink_path }
    IN IF parts = {} THEN NotFound
       ELSE LET pa == CHOOSE x \in parts : TRUE
                dir == DerivativesDir(dataset_id, pa[2], id)
            IN IF dir \notin DOMAIN files THEN NotFound
               ELSE IF pa[1] = "" THEN dir
               ELSE IF pa[1] \in files[dir] THEN dir \o "/" \o pa[1]
               ELSE NotFound

(***************************************************************************)
(* Input domains of ExtractBids.                                            *)
(***************************************************************************)
EbOutputLists ==
    OutputLists \cup
    { << >>,
      << BidsOutput("recon", "Directory", "freesurfer/recon-all") >>,
      << BidsOutput("whole", "Directory", None) >>,
      << BidsOutput("stats", "Directory", "stats/summary"),
         BidsOutput("recon", "Directory", "freesurfer/recon-all") >> }

ExtractBidsCalls ==
    [ dataset : { [id |-> "/data/bids"] },
      row_frequency : {"Clinical.session"},
      app_name : {"myapp"},
      output_dir : {"/data/out", "/data/out_b", "/data/gone"},
      outputs : EbOutputLists,
      id : {"01", "02", "99"},
      app_completed : {TRUE} ]

(***************************************************************************)
(* ExtractBids, lines 319-365.                                              *)
(***************************************************************************)
ExtractBids_Call ==
    /\ eb_pc \in {"idle", "returned", "raised"}
    /\ eb_calls < MaxExtracts
    /\ eb_calls' = eb_calls + 1
    /\ eb_args' \in ExtractBidsCalls
    /\ eb_pc' = "L346"
    /\ eb_exc' = NoExc
    /\ eb_i' = 0
    /\ eb_output_paths' = << >>
    /\ eb_out' = UnsetObj
    /\ UNCHANGED <<fs, storeVars, tbVars, wfVars, parked>>

\* lines 346-348: the output directory is copied into the derivatives
ExtractBids_CopyTree ==
    /\ eb_pc = "L346"
    /\ LET dst == DerivativesDir(eb_args.dataset.id, eb_args.app_name, eb_args.id)
           r == copytree(fs, eb_args.output_dir, dst)
       IN /\ fs' = r.fs
          /\ IF r.ok
               THEN eb_pc' = "L349" /\ eb_exc' = eb_exc
               ELSE eb_pc' = "raised"
                    /\ eb_exc' = TaskError(r.error, 346, "ExtractBids")
    /\ UNCHANGED <<eb_args, eb_i, eb_output_paths, eb_out, eb_calls, storeVars,
                   tbVars, wfVars, parked>>

\* lines 349-350: output_paths = []; row = dataset.row(row_frequency, id)
ExtractBids_GetRow ==
    /\ eb_pc = "L349"
    /\ eb_output_paths' = << >>
    /\ IF eb_args.id \in RowIdsOfDataset
         THEN eb_pc' = "L351" /\ eb_exc' = eb_exc /\ eb_i' = 1
         ELSE eb_pc' = "raised" /\ eb_i' = eb_i
              /\ eb_exc' = TaskError("NoSuchRow", 350, "ExtractBids")
    /\ UNCHANGED <<fs, eb_args, eb_out, eb_calls, storeVars, tbVars, wfVars, parked>>

\* lines 351-361, one iteration: dataset.add_sink(output.name, ...,
\* path=<path or "">@<app_name>); a name clash as in ToBids
ExtractBids_AddSink ==
    /\ eb_pc = "L351"
    /\ eb_i <= Len(eb_args.outputs)
    /\ LET output == eb_args.outputs[eb_i]
           sink == Sink(output.name, output.datatype,
                        SinkPath(output, eb_args.app_name))
       IN \/ /\ output.name \notin ColumnNames(columns)
             /\ columns' = add_sink(columns, sink)
             /\ eb_i' = eb_i + 1
             /\ UNCHANGED <<eb_pc, eb_exc>>
          \/ /\ output.name \in ColumnNames(columns)
             /\ columns' = replace_sink(columns, sink)
             /\ eb_i' = eb_i + 1
             /\ UNCHANGED <<eb_pc, eb_exc>>
          \/ /\ output.name \in ColumnNames(columns)
             /\ eb_pc' = "raised"
             /\ eb_exc' = TaskError("NameClash", 357, "ExtractBids")
             /\ UNCHANGED <<columns, eb_i>>
    /\ UNCHANGED <<fs, eb_args, eb_output_paths, eb_out, eb_calls,
                   store_json_edits, cells, connection, log, tbVars, wfVars, parked>>

\* line 362: with dataset.store.connection, after the loop
ExtractBids_Connect ==
    /\ eb_pc = "L351"
    /\ eb_i > Len(eb_args.outputs)
    /\ connection' = EnterConnection(connection)
    /\ eb_pc' = "L363"
    /\ eb_i' = 1
    /\ UNCHANGED <<fs, eb_exc, eb_args, eb_output_paths, eb_out, eb_calls,
                   store_json_edits, columns, cells, log, tbVars, wfVars, parked>>

\* lines 363-364, one iteration: output_paths.append(row[output.name]); a
\* read that finds nothing raises and the with statement closes the
\* connection
ExtractBids_ReadOutput ==
    /\ eb_pc = "L363"
    /\ eb_i <= Len(eb_args.outputs)
    /\ LET output == eb_args.outputs[eb_i]
           item == ReadDerivative(fs, eb_args.dataset.id, eb_args.id,
                                  Column(columns, output.name).path)
       IN IF item # NotFound
            THEN /\ eb_output_paths' = Append(eb_output_paths, item)
                 /\ eb_i' = eb_i + 1
                 /\ UNCHANGED <<eb_pc, eb_exc, connection>>
            ELSE /\ eb_pc' = "raised"
                 /\ eb_exc' = TaskError("StoreReadError", 364, "ExtractBids")
                 /\ connection' = ExitConnection(connection)
                 /\ UNCHANGED <<eb_output_paths, eb_i>>
    /\ UNCHANGED <<fs, eb_args, eb_out, eb_calls, store_json_edits, columns,
                   cells, log, tbVars, wfVars, parked>>

\* the end of the with block
ExtractBids_Disconnect ==
    /\ eb_pc = "L363"
    /\ eb_i > Len(eb_args.outputs)
    /\ connection' = ExitConnection(connection)
    /\ eb_pc' = "L365"
    /\ UNCHANGED <<fs, eb_exc, eb_args, eb_i, eb_output_paths, eb_out, eb_calls,
                   store_json_edits, columns, cells, log, tbVars, wfVars, parked>>

\* a variant that returns the tuple for every number of outputs
ReturnValue_AlwaysTuple(outs, output_paths) ==
    [kind |-> "tuple", items |-> output_paths]

\* line 365: tuple(output_paths) if len(outputs) > 1 else output_paths[0];
\* output_paths[0] of an empty list raises IndexError
ReturnValue(outs, output_paths) ==
    IF Len(outs) > 1
      THEN [kind |-> "tuple", items |-> output_paths]
      ELSE IF Len(output_paths) >= 1
             THEN [kind |-> "item", value |-> output_paths[1]]
             ELSE [kind |-> "IndexError"]

\* line 365
ExtractBids_Return ==
    /\ eb_pc = "L365"
    /\ LET r == ReturnValue(eb_args.outputs, eb_output_paths)
       IN IF r.kind # "IndexError"
            THEN /\ eb_out' = r
                 /\ eb_pc' = "returned" /\ eb_exc' = eb_exc
            ELSE /\ eb_out' = eb_out
                 /\ eb_pc' = "raised"
                 /\ eb_exc' = TaskError("IndexError", 365, "ExtractBids")
    /\ UNCHANGED <<fs, eb_args, eb_i, eb_output_paths, eb_calls, storeVars,
                   tbVars, wfVars, parked>>

\* the dataset ExtractBids is given: the app has written its output tree,
\* and the frameset may carry the input sinks ToBids added
InitExtractBids ==
    /\ InitWf
    /\ store_json_edits = << >>
    /\ columns \in { << >>, << Sink("T1w", "NiftiGzX", "anat/T1w") >> }
    /\ cells = << >>
    /\ connection = "closed" /\ log = << >>
    /\ tb_pc = "idle" /\ tb_exc = NoExc /\ tb_args = UnsetObj
    /\ tb_je_args = << >> /\ tb_i = 0 /\ tb_out = UnsetObj
    /\ fs = [d \in {"/data/out", "/data/out_b"} |->
               IF d = "/data/out" THEN TreeA ELSE TreeB]
    /\ eb_pc = "idle" /\ eb_exc = NoExc /\ eb_args = UnsetObj
    /\ eb_i = 0 /\ eb_output_paths = << >> /\ eb_out = UnsetObj
    /\ eb_calls = 0
    /\ parked = IdleFrame

NextExtractBids ==
    \/ ExtractBids_Call
    \/ ExtractBids_CopyTree
    \/ ExtractBids_GetRow
    \/ ExtractBids_AddSink
    \/ ExtractBids_Connect
    \/ ExtractBids_ReadOutput
    \/ ExtractBids_Disconnect
    \/ ExtractBids_Return

SpecExtractBids == InitExtractBids /\ [][NextExtractBids]_vars

(***************************************************************************)
(* The two tasks called one after the other on one frameset, as a caller    *)
(* that runs the stages of one row does: ToBids once and, when it has       *)
(* ended, ExtractBids for the same row up to MaxExtracts times.             *)
(***************************************************************************)
\* the call of ToBids has ended
ToBidsEnded == tb_pc \in {"returned", "raised"}

\* no call of ExtractBids is running
ExtractBidsNotRunning == eb_pc \in {"idle", "returned", "raised"}

\* the ToBids calls of the serial caller: no sidecar edits
SerialToBidsCalls ==
    { c \in ToBidsCalls :
        c.json_edits = NoneObj /\ c.fixed_json_edits = << >> }

Serial_ToBids_Call ==
    /\ ExtractBidsNotRunning
    /\ ToBids_Call
    /\ tb_args' \in SerialToBidsCalls

Serial_ExtractBids_Call ==
    /\ ToBidsEnded
    /\ ExtractBids_Call
    /\ eb_args'.id = tb_args.id

InitSerial ==
    /\ InitExtractBids
    /\ columns = << >>

NextSerial ==
    \/ Serial_ToBids_Call
    \/ ToBids_SplitEdits
    \/ ToBids_InstallEdits
    \/ ToBids_AddSink
    \/ ToBids_GetRow
    \/ ToBids_Connect
    \/ ToBids_WriteInput
    \/ ToBids_Disconnect
    \/ ToBids_Return
    \/ Serial_ExtractBids_Call
    \/ ExtractBids_CopyTree
    \/ ExtractBids_GetRow
    \/ ExtractBids_AddSink
    \/ ExtractBids_Connect
    \/ ExtractBids_ReadOutput
    \/ ExtractBids_Disconnect
    \/ ExtractBids_Return

SpecSerial == InitSerial /\ [][NextSerial]_vars

(***************************************************************************)
(* Two runs, for different rows, on one frameset and its store.  Each run   *)
(* calls ToBids and then, for the same row and from its own output          *)
(* directory, ExtractBids.  The runs are interleaved statement by           *)
(* statement, except that a `with store.connection' block of one run is     *)
(* not interrupted by the other.  The variables tb_* and eb_* are the       *)
(* frames of the run that is executing, `parked' those of the other.        *)
(***************************************************************************)
CurrentFrame ==
    [tb_pc |-> tb_pc, tb_exc |-> tb_exc, tb_args |-> tb_args,
     tb_je_args |-> tb_je_args, tb_i |-> tb_i, tb_out |-> tb_out,
     eb_pc |-> eb_pc, eb_exc |-> eb_exc, eb_args |-> eb_args,
     eb_i |-> eb_i, eb_output_paths |-> eb_output_paths, eb_out |-> eb_out]

\* the other run is given the processor
SwitchRun ==
    /\ tb_pc # "L311" /\ eb_pc # "L363"
    /\ parked' = CurrentFrame
    /\ tb_pc' = parked.tb_pc /\ tb_exc' = parked.tb_exc
    /\ tb_args' = parked.tb_args /\ tb_je_args' = parked.tb_je_args
    /\ tb_i' = parked.tb_i /\ tb_out' = parked.tb_out
    /\ eb_pc' = parked.eb_pc /\ eb_exc' = parked.eb_exc
    /\ eb_args' = parked.eb_args /\ eb_i' = parked.eb_i
    /\ eb_output_paths' = parked.eb_output_paths /\ eb_out' = parked.eb_out
    /\ UNCHANGED <<fs, eb_calls, storeVars, wfVars>>

\* the ToBids calls of the two runs: one input, provided, with or without
\* user edits
TwoRunsToBidsCalls ==
    { c \in ToBidsCalls :
        /\ c.inputs = << BidsInput("T1w", "anat/T1w", "NiftiGzX") >>
        /\ c.input_values = << <<"T1w", "/tmp/T1w.nii.gz">> >>
        /\ c.id \in {"01", "02"}
        /\ c.fixed_json_edits = << >>
        /\ c.json_edits \in {NoneObj, Str(<<"a", " ", "2">>)} }

\* a run stages a row that the other run does not
TwoRuns_ToBids_Call ==
    /\ ToBids_Call
    /\ tb_args' \in TwoRunsToBidsCalls
    /\ parked.tb_args # UnsetObj => tb_args'.id # parked.tb_args.id

\* a run extracts, once, the row it has staged, from its own directory
TwoRuns_ExtractBids_Call ==
    /\ tb_pc \in {"returned", "raised"}
    /\ eb_pc = "idle"
    /\ ExtractBids_Call
    /\ eb_args'.id = tb_args.id
    /\ eb_args'.output_dir = (IF tb_args.id = "01" THEN "/data/out"
                                                   ELSE "/data/out_b")
    /\ eb_args'.outputs = << BidsOutput("whole", "Directory", None) >>

InitTwoRuns ==
    /\ InitExtractBids
    /\ columns = << >>

NextTwoRuns ==
    \/ TwoRuns_ToBids_Call
    \/ ToBids_SplitEdits
    \/ ToBids_InstallEdits
    \/ ToBids_AddSink
    \/ ToBids_GetRow
    \/ ToBids_Connect
    \/ ToBids_WriteInput
    \/ ToBids_Disconnect
    \/ ToBids_Return
    \/ TwoRuns_ExtractBids_Call
    \/ ExtractBids_CopyTree
    \/ ExtractBids_GetRow
    \/ ExtractBids_AddSink
    \/ ExtractBids_Connect
    \/ ExtractBids_ReadOutput
    \/ ExtractBids_Disconnect
    \/ ExtractBids_Return
    \/ SwitchRun

SpecTwoRuns == InitTwoRuns /\ [][NextTwoRuns]_vars

(***************************************************************************)
(* Properties of BidsApp (specification Spec).                              *)
(***************************************************************************)
\* the call has ended: by `return' or by an exception
ConstructionEnded == pc \in {"returned", "raised"}

HasNode(n) == \E i \in DOMAIN nodes : nodes[i].node = n
NodeNamed(n) == nodes[CHOOSE i \in DOMAIN nodes : nodes[i].node = n]

\* node b takes the output `completed' of node a as an input
GatedOn(b, a) ==
    /\ HasNode(a) /\ HasNode(b)
    /\ <<a, "completed">> \in NodeNamed(b).waits_for

\* input_fields has been assigned (line 197 and the loop after it have run)
FieldsBuilt == pc \in {"L215", "L222", "L228", "raised"}

\* environment and app_output_path have been assigned (lines 215-220)
EnvironmentSelected == pc \in {"L222", "L228", "raised"}

\* analysis_level has been assigned (lines 222-226)
LevelSelected == pc \in {"L228", "raised"}

\* C1: every pipeline that BidsApp constructs holds the three stages wired
\* in order: main_task waits for to_bids.completed and extract_bids waits
\* for main_task.completed, so that the stages start as Stage-In, Invoker,
\* Extract-Out.
C1_StagesGatedInOrder ==
    ConstructionEnded =>
        /\ GatedOn("main_task", "to_bids")
        /\ GatedOn("extract_bids", "main_task")

ParticipantLabels ==
    { nodes[i].args.participant_label :
        i \in { j \in DOMAIN nodes :
                  /\ nodes[j].node = "main_task"
                  /\ "participant_label" \in DOMAIN nodes[j].args } }

\* C3: at the session frequency the invocation has the analysis level
\* "participant" and the participant label <row-id>; at any other frequency
\* it has the level "group" and no participant label.
C3_LevelAndLabelCoupled ==
    (LevelSelected /\ ConstructionEnded) =>
        IF row_frequency = "Clinical.session"
          THEN analysis_level = "participant" /\ ParticipantLabels = {row_id}
          ELSE analysis_level = "group" /\ ParticipantLabels = {}

\* C4: the output path argument is the fixed container path when a
\* container image is configured and the host output directory when none
\* is; the environment is Docker exactly when an image is configured, and
\* Native otherwise.
C4_OutputPathByEnvironment ==
    EnvironmentSelected =>
        /\ environment.kind \in {"Native", "Docker"}
        /\ environment.kind = "Docker" <=> container_image # None
        /\ container_image # None =>
              /\ environment = Docker(container_image)
              /\ app_output_path = CONTAINER_DERIV_PATH
              /\ app_output_path # app_output_dir
        /\ container_image = None =>
              /\ environment = Native
              /\ app_output_path = app_output_dir

C4_Witness ==
    /\ pc = "L222"
    /\ container_image = "bids/app:1.0"
    /\ app_output_dir = "/data/out"
    /\ app_output_path = CONTAINER_DERIV_PATH

\* the names of the fields added for the dynamic parameters, in their order
ParamFieldNames ==
    [i \in DOMAIN parameters.items |->
        input_fields[Len(BIDS_APP_INPUTS_Value) + i].name]

C6_OneFlagPerParameter ==
    FieldsBuilt =>
        /\ Len(input_fields) = Len(BIDS_APP_INPUTS_Value) + Len(parameters.items)
        /\ \A i \in DOMAIN parameters.items :
              LET p == parameters.items[i]
                  f == input_fields[Len(BIDS_APP_INPUTS_Value) + i]
              IN /\ f.name = p[1]
                 /\ f.meta.argstr = IF p[2] = "bool"
                                      THEN "--" \o p[1]
                                      ELSE "--" \o p[1] \o " %s"

\* the bindings of the invocation, if any were set
MainTaskBindings ==
    UNION { nodes[i].bindings :
              i \in { j \in DOMAIN nodes :
                        /\ nodes[j].node = "main_task"
                        /\ "bindings" \in DOMAIN nodes[j] } }

\* C7: a containerized invocation carries the image and the one binding
\* host output directory -> (container derivatives path, "rw"); a native
\* invocation has no bindings.
C7_ContainerBindings ==
    ConstructionEnded =>
        IF container_image # None
          THEN /\ environment = Docker(container_image)
               /\ MainTaskBindings =
                    { <<app_output_dir, <<CONTAINER_DERIV_PATH, "rw">> >> }
          ELSE MainTaskBindings = {}

(***************************************************************************)
(* Properties of ExtractBids (specification SpecExtractBids).               *)
(***************************************************************************)
\* C8: the copy step of ExtractBids into a destination
\* derivatives/<app-name>/sub-<row-id> that exists raises and leaves the
\* file system as it was (nothing is overwritten or merged); into an absent
\* destination it copies the whole tree of the output directory there and
\* changes no other directory.
C8_CopyRefusesExistingDestination ==
    [][ eb_pc = "L346" =>
          LET dst == DerivativesDir(eb_args.dataset.id, eb_args.app_name,
                                    eb_args.id)
          IN IF dst \in DOMAIN fs
               THEN /\ eb_pc' = "raised"
                    /\ eb_exc'.type \in {"FileExistsError", "FileNotFoundError"}
                    /\ fs' = fs
               ELSE eb_args.output_dir \in DOMAIN fs =>
                      /\ eb_pc' = "L349"
                      /\ DOMAIN fs' = DOMAIN fs \cup {dst}
                      /\ fs'[dst] = fs[eb_args.output_dir]
                      /\ \A d \in DOMAIN fs : fs'[d] = fs[d]
      ]_vars

\* a second ExtractBids for the same app and row was refused
C8_Witness ==
    /\ eb_calls = 2
    /\ eb_pc = "raised"
    /\ eb_exc.type = "FileExistsError"
    /\ DerivativesDir(eb_args.dataset.id, eb_args.app_name, eb_args.id)
         \in DOMAIN fs

(***************************************************************************)
(* Properties of ToBids (specification SpecToBids).                         *)
(***************************************************************************)
\* lines 304-306 have run
EditsInstalled ==
    \/ tb_pc \in {"L307", "L310", "L311", "L316", "returned"}
    \/ tb_pc = "raised" /\ tb_exc.line > 306

\* the characters of the user's string ("" for None)
UserChars ==
    IF tb_args.json_edits = NoneObj THEN << >> ELSE tb_args.json_edits.chars

\* a string cut at its spaces, the empty pieces dropped
RECURSIVE split_spaces(_, _, _, _)
split_spaces(s, i, token, out) ==
    IF i > Len(s)
      THEN IF token # << >> THEN Append(out, token) ELSE out
      ELSE IF s[i] = " "
             THEN split_spaces(s, i + 1, << >>,
                               IF token # << >> THEN Append(out, token) ELSE out)
             ELSE split_spaces(s, i + 1, Append(token, s[i]), out)

SplitOnSpaces(s) == split_spaces(s, 1, << >>, << >>)

\* the value the edits give a key when a later edit of a key replaces an
\* earlier one: that of the last pair with the key
KeysOf(edits) == { edits[i][1] : i \in DOMAIN edits }
LastIndexOf(edits, key) ==
    CHOOSE i \in DOMAIN edits :
        /\ edits[i][1] = key
        /\ \A j \in DOMAIN edits : edits[j][1] = key => j <= i
Resolve(edits, key) == edits[LastIndexOf(edits, key)][2]

OddUserTokens ==
    /\ tb_args # UnsetObj
    /\ shlex_split(UserChars).ok
    /\ Len(shlex_split(UserChars).tokens) % 2 = 1

\* C10: a user string with an odd number of tokens is rejected before any
\* side effect: every step ToBids takes on such a string ends it with an
\* error and changes neither the store's edits, nor the sinks, nor the row.
C10_OddTokenCountRejected ==
    [][ (tb_pc # "idle" /\ OddUserTokens) =>
          /\ tb_pc' = "raised"
          /\ UNCHANGED <<store_json_edits, columns, cells>>
      ]_vars

(***************************************************************************)
(* Properties of the field descriptor lists (specification Spec).           *)
(***************************************************************************)
\* no two descriptors of the list have the same name
UniqueNames(descriptors) ==
    \A i, j \in DOMAIN descriptors :
        descriptors[i].name = descriptors[j].name => i = j

\* C11: a list of inputs or of outputs that names a descriptor twice is
\* rejected before Stage-In: BidsApp adds the to_bids node only for lists of
\* unique names, and a call with a duplicate ends in a configuration error
\* raised by the conversion of the lists (lines 156-161).
C11_DuplicateNamesRejected ==
    /\ HasNode("to_bids") => UniqueNames(inputs) /\ UniqueNames(outputs)
    /\ (pc = "raised" /\ ~(UniqueNames(inputs) /\ UniqueNames(outputs))) =>
           exc.line <= 161

(***************************************************************************)
(* Properties of the row writes of ToBids (specification SpecToBids).       *)
(***************************************************************************)
\* the cell of the running call's row under a name
TbCell(n) == CellKey(tb_args.row_frequency, tb_args.id, n)

\* the items of input_values that carry a value, and those that do not
ProvidedItems ==
    { i \in DOMAIN tb_args.input_values :
        tb_args.input_values[i][2] # NOTHING }
AbsentItems == DOMAIN tb_args.input_values \ ProvidedItems

C13_AbsentSkippedNotFatal ==
    /\ tb_pc = "returned" =>
          /\ tb_out.completed = TRUE
          /\ \A i \in AbsentItems :
                /\ TbCell(tb_args.input_values[i][1]) \notin DOMAIN cells
                /\ \E k \in DOMAIN log :
                      log[k] = <<"No input provided", tb_args.input_values[i][1]>>
          /\ \A i \in ProvidedItems :
                TbCell(tb_args.input_values[i][1]) \in DOMAIN cells
    /\ tb_pc # "returned" => tb_out = UnsetObj
    /\ (tb_pc = "raised" /\ tb_exc.type = "StoreWriteError") =>
          /\ tb_out = UnsetObj
          /\ connection = "closed"

\* T1w was absent and bold provided: bold is written, T1w is not
C13_Witness ==
    /\ tb_pc = "returned"
    /\ tb_out.completed = TRUE
    /\ AbsentItems # {} /\ ProvidedItems # {}
    /\ TbCell("bold") \in DOMAIN cells
    /\ TbCell("T1w") \notin DOMAIN cells

\* every input descriptor of the running call has its sink
AllInputSinksRegistered ==
    \A i \in DOMAIN tb_args.inputs :
        tb_args.inputs[i].name \in ColumnNames(columns)

\* the patch set of the running call is the one installed on the store
FullPatchSetInstalled ==
    store_json_edits = EffectiveEdits(tb_args.fixed_json_edits, tb_je_args)

\* C18: the effects of ToBids come in a fixed order: the patch set is
\* installed before a sink is registered, every sink is registered before
\* the connection is opened, and a row value is written only with the
\* connection open, the full patch set installed and every input sink
\* registered; the item written carries that patch set.
C18_EffectOrder ==
    [][ /\ store_json_edits' # store_json_edits =>
              /\ columns' = columns /\ cells' = cells
              /\ tb_pc = "L304"
        /\ columns' # columns =>
              /\ FullPatchSetInstalled
              /\ connection = "closed" /\ cells' = cells
        /\ (connection = "closed" /\ connection' = "open") =>
              /\ FullPatchSetInstalled
              /\ AllInputSinksRegistered
        /\ cells' # cells =>
              /\ connection = "open"
              /\ FullPatchSetInstalled
              /\ AllInputSinksRegistered
              /\ \A k \in DOMAIN cells' :
                    (k \notin DOMAIN cells \/ cells'[k] # cells[k]) =>
                        cells'[k].edits =
                            EffectiveEdits(tb_args.fixed_json_edits, tb_je_args)
      ]_vars

\* a row value was written with a non-empty patch set
C18_Witness ==
    /\ tb_pc = "L311"
    /\ tb_i = 2
    /\ store_json_edits # << >>
    /\ TbCell("T1w") \in DOMAIN cells
    /\ cells[TbCell("T1w")].edits = store_json_edits

(***************************************************************************)
(* Properties of the return value and of the order of effects of           *)
(* ExtractBids (specification SpecExtractBids).                             *)
(***************************************************************************)
\* the value of the row under the sink of an output descriptor
ResolvedValue(output) ==
    ReadDerivative(fs, eb_args.dataset.id, eb_args.id,
                   SinkPath(output, eb_args.app_name))

\* C15: for a list of output descriptors (of unique names), ExtractBids
\* returns the one resolved value when the list has one descriptor, and a
\* tuple of one resolved value per descriptor, in the list's order, when it
\* has more; each value is read under the sink of path
\* <descriptor.path or "">@<app_name>.
C15_ReturnShape ==
    (eb_pc = "returned" /\ UniqueNames(eb_args.outputs)) =>
        /\ \A i \in DOMAIN eb_args.outputs :
              Column(columns, eb_args.outputs[i].name).path =
                  (IF eb_args.outputs[i].path = None
                     THEN "" ELSE eb_args.outputs[i].path)
                  \o "@" \o eb_args.app_name
        /\ IF Len(eb_args.outputs) = 1
             THEN eb_out = [kind |-> "item",
                            value |-> ResolvedValue(eb_args.outputs[1])]
             ELSE /\ Len(eb_args.outputs) > 1
                  /\ eb_out.kind = "tuple"
                  /\ Len(eb_out.items) = Len(eb_args.outputs)
                  /\ \A i \in DOMAIN eb_args.outputs :
                        eb_out.items[i] = ResolvedValue(eb_args.outputs[i])

\* outputs (recon, whole): the tuple (recon-all directory, whole directory)
C15_Witness ==
    /\ eb_pc = "returned"
    /\ Len(eb_args.outputs) = 2
    /\ eb_args.outputs[1].name = "recon" /\ eb_args.outputs[2].name = "whole"
    /\ eb_out = [kind |-> "tuple",
                 items |-> << "/data/bids/derivatives/myapp/sub-01/freesurfer/recon-all",
                              "/data/bids/derivatives/myapp/sub-01" >>]

\* the destination of the copy of the running call
EbDestination ==
    DerivativesDir(eb_args.dataset.id, eb_args.app_name, eb_args.id)

\* C20: the copy comes before every sink registration and every row read:
\* the copy step leaves the sinks and the connection alone, a failed copy
\* ends the call, a call that has failed changes neither sinks nor
\* connection, and a sink is registered or the connection opened only
\* with the copy made.
C20_CopyBeforeSinks ==
    [][ /\ eb_pc = "L346" =>
              /\ UNCHANGED <<columns, connection, cells>>
              /\ (eb_args.output_dir \notin DOMAIN fs
                    \/ EbDestination \in DOMAIN fs) =>
                     /\ eb_pc' = "raised" /\ eb_exc'.line = 346
                     /\ fs' = fs
        /\ eb_pc = "raised" => UNCHANGED <<columns, connection>>
        /\ columns' # columns =>
              /\ eb_pc = "L351"
              /\ EbDestination \in DOMAIN fs
              /\ fs[EbDestination] = fs[eb_args.output_dir]
        /\ connection' # connection =>
              /\ eb_pc \in {"L351", "L363"}
              /\ EbDestination \in DOMAIN fs
      ]_vars

\* the output directory was missing: the first call failed at the copy, with
\* no sink added and the connection closed
C20_Witness ==
    /\ eb_pc = "raised"
    /\ eb_exc.type = "FileNotFoundError" /\ eb_exc.line = 346
    /\ eb_calls = 1
    /\ Len(eb_args.outputs) = 2
    /\ ColumnNames(columns) \cap ColumnNames(eb_args.outputs) = {}
    /\ connection = "closed"

(***************************************************************************)
(* Properties of the store's connection (specification SpecSerial).         *)
(***************************************************************************)
\* ToBids is inside its `with' block (lines 311-315)
InWriteBlock == tb_pc = "L311"

\* ExtractBids is inside its `with' block (lines 363-364)
InReadBlock == eb_pc = "L363"

\* C14: the connection is open exactly while ToBids is in its row write
\* block or ExtractBids in its row read block: it is closed once a block
\* has ended, by its end or by an exception, and closed in every state
\* outside the two blocks (before, between and after the tasks).
C14_ConnectionScoped ==
    connection = "open" <=> (InWriteBlock \/ InReadBlock)

\* ToBids has returned, and a later ExtractBids failed inside its read
\* block: the connection is closed
C14_Witness ==
    /\ tb_pc = "returned"
    /\ cells # << >>
    /\ eb_pc = "raised"
    /\ eb_exc.type = "StoreReadError"
    /\ connection = "closed"

(***************************************************************************)
(* Properties of the workflow's wiring and of the shared field list        *)
(* (specification Spec).                                                    *)
(***************************************************************************)
\* C16: the pipeline BidsApp constructs gives extract_bids the frameset
\* that to_bids returns (to_bids.frameset), the handle ToBids has added its
\* sinks to, and not the dataset BidsApp was given.
C16_ExtractUsesStagedHandle ==
    ConstructionEnded =>
        /\ HasNode("to_bids")
        /\ HasNode("extract_bids")
        /\ NodeNamed("extract_bids").args.dataset = <<"to_bids", "frameset">>

\* C19: the module-level list BIDS_APP_INPUTS holds its seven fields
\* whatever was constructed, and the field list of a construction is those
\* seven fields followed by one field per parameter of that construction.
C19_BaseFieldsUnchanged ==
    /\ BIDS_APP_INPUTS = BIDS_APP_INPUTS_Value
    /\ Len(BIDS_APP_INPUTS) = 7
    /\ FieldsBuilt =>
          /\ Len(input_fields) = 7 + Len(parameters.items)
          /\ \A i \in 1..7 : input_fields[i] = BIDS_APP_INPUTS_Value[i]
          /\ \A i \in DOMAIN parameters.items :
                input_fields[7 + i] = ParamField(parameters.items[i])

\* the second construction, with two parameters, has built its nine fields
C19_Witness ==
    /\ ncalls = 2
    /\ pc = "L215"
    /\ Len(parameters.items) = 2
    /\ Len(input_fields) = 9
    /\ Len(BIDS_APP_INPUTS) = 7

(***************************************************************************)
(* Properties of two runs on one store (specification SpecTwoRuns).         *)
(***************************************************************************)
\* the patch set a run's ToBids installs: its fixed edits and its own pairs
OwnEdits(args) ==
    EffectiveEdits(args.fixed_json_edits,
                   IF args.json_edits = NoneObj
                     THEN << >> ELSE shlex_split(args.json_edits.chars).tokens)

\* the two runs
RunFrames == {CurrentFrame, parked}

\* C17: two runs for different rows on one store end as each would alone:
\* every value staged in a run's row was written under that run's own
\* patch set, never under the edits of the other run.
C17_RunsIndependent ==
    \A f \in RunFrames :
        f.tb_args # UnsetObj =>
            \A k \in DOMAIN cells :
                k[2] = f.tb_args.id => cells[k].edits = OwnEdits(f.tb_args)

====
